---- MODULE Spec2Model ----
(***************************************************************************)
(* Model of BCDebtSimulation (cashflow_calc.py) and of its caller app.py.  *)
(*                                                                         *)
(* Numbers.  The program computes in IEEE-754 doubles: every arithmetic    *)
(* operation yields the representable number nearest to the exact result.  *)
(* The model keeps that shape with decimal fixed-point numbers:            *)
(*   - a money amount is an integer count of 1/Unit dollars,               *)
(*   - a rate or growth factor is an integer count of 1/RateScale,         *)
(* and every multiplication and division rounds its exact result to the    *)
(* nearest representable number (additions and subtractions are exact, as  *)
(* they are for doubles of this magnitude up to the last bit).  A mortgage *)
(* growth factor can outgrow that range: it is kept as a float of a fixed  *)
(* number of significant digits, for which subtracting 1 rounds as well.   *)
(***************************************************************************)
EXTENDS Integers, Sequences, FiniteSets, TLC

\* ------------------------------------------------------------------------
\* Number representation
\* ------------------------------------------------------------------------
Unit == 500
RateScale == 1000000
Infinity == 2147483647

Abs(x) == IF x < 0 THEN -x ELSE x
Sign(x) == IF x < 0 THEN -1 ELSE 1
Min(a, b) == IF a <= b THEN a ELSE b
Max(a, b) == IF a >= b THEN a ELSE b

\* <<q, r>> with a * b = q * c + r and 0 <= r < c, for a, b >= 0 and c > 0,
\* computed digit by digit of b (in radix 16) so that the product a * b, which
\* need not fit a machine integer, is never formed.
RECURSIVE MulDivQR(_, _, _)
MulDivQR(a, b, c) ==
  IF b = 0 THEN <<0, 0>>
  ELSE IF a <= Infinity \div b THEN <<(a * b) \div c, (a * b) % c>>
  ELSE LET h == MulDivQR(a, b \div 16, c)
           d == b % 16
           t == 16 * h[2] + d * (a % c)
       IN <<16 * h[1] + d * (a \div c) + (t \div c), t % c>>

\* a * b / c rounded to the nearest integer, for signed a and b and c > 0.
MulDivRound(a, b, c) ==
  LET qr == MulDivQR(Abs(a), Abs(b), c)
      n == qr[1] + (IF 2 * qr[2] >= c THEN 1 ELSE 0)
  IN Sign(a) * Sign(b) * n

\* x * rate, where rate counts 1/RateScale: the float product x * rate.
MulRate(x, rate) == MulDivRound(x, rate, RateScale)

\* a / b rounded to the nearest integer, b > 0: the float quotient a / b.
DivRound(a, b) == MulDivRound(a, 1, b)

Dollars(d) == d * Unit

\* ------------------------------------------------------------------------
\* BCDebtSimulation.__init__: the tax tables
\* ------------------------------------------------------------------------
federal_brackets ==
  << <<0, Dollars(55867), 150000>>,
     <<Dollars(55867), Dollars(111733), 205000>>,
     <<Dollars(111733), Dollars(173205), 260000>>,
     <<Dollars(173205), Dollars(246752), 290000>>,
     <<Dollars(246752), Infinity, 330000>> >>

bc_brackets ==
  << <<0, Dollars(45654), 50600>>,
     <<Dollars(45654), Dollars(91308), 77000>>,
     <<Dollars(91308), Dollars(104835), 105000>>,
     <<Dollars(104835), Dollars(127299), 122900>>,
     <<Dollars(127299), Dollars(172602), 147000>>,
     <<Dollars(172602), Dollars(240716), 168000>>,
     <<Dollars(240716), Infinity, 205000>> >>

bc_dividend_credit_rate == 120000
federal_dividend_credit_rate == 150198

IncomeTypes == {"regular", "capital_gains", "eligible_dividends"}

\* ------------------------------------------------------------------------
\* _calculate_bracket_tax: the loop over the brackets, from bracket i on
\* ------------------------------------------------------------------------
RECURSIVE BracketLoop(_, _, _, _)
BracketLoop(brackets, i, remaining_income, total_tax) ==
  IF i > Len(brackets) \/ remaining_income <= 0 THEN total_tax
  ELSE LET lower == brackets[i][1]
           upper == brackets[i][2]
           rate == brackets[i][3]
           taxable_in_bracket == Min(remaining_income, upper - lower)
           tax_in_bracket == MulRate(taxable_in_bracket, rate)
       IN BracketLoop(brackets, i + 1, remaining_income - taxable_in_bracket,
                      total_tax + tax_in_bracket)

_calculate_bracket_tax(income, brackets) == BracketLoop(brackets, 1, income, 0)

\* ------------------------------------------------------------------------
\* calculate_tax
\* ------------------------------------------------------------------------
ClampTaxMissing(total_tax) == total_tax

\* `return max(0, total_tax)`
ClampTax(total_tax) == Max(0, total_tax)

calculate_tax(income, income_type) ==
  IF income <= 0 THEN 0
  ELSE LET taxable_income ==
             IF income_type = "capital_gains" THEN MulRate(income, 500000)
             ELSE IF income_type = "eligible_dividends" THEN MulRate(income, 1380000)
             ELSE income
           federal_tax == _calculate_bracket_tax(taxable_income, federal_brackets)
           provincial_tax == _calculate_bracket_tax(taxable_income, bc_brackets)
           total_tax == federal_tax + provincial_tax
           federal_credit == MulRate(taxable_income, federal_dividend_credit_rate)
           provincial_credit == MulRate(taxable_income, bc_dividend_credit_rate)
       IN IF income_type = "eligible_dividends"
          THEN ClampTax(total_tax - (federal_credit + provincial_credit))
          ELSE ClampTax(total_tax)

\* ------------------------------------------------------------------------
\* calculate_gross_income: `for _ in range(10)` from iteration k on.
\* The result is <<gross_income, iterations started>>.
\* ------------------------------------------------------------------------
GrossIterationsFew == 2 + 1

GrossIterations == 10
Tolerance == Unit \div 100

RECURSIVE GrossLoop(_, _, _, _)
GrossLoop(net_income_needed, income_type, gross_income, k) ==
  IF k >= GrossIterations THEN <<gross_income, k>>
  ELSE LET tax == calculate_tax(gross_income, income_type)
           net_income == gross_income - tax
           difference == net_income_needed - net_income
       IN IF Abs(difference) < Tolerance THEN <<gross_income, k + 1>>
          ELSE GrossLoop(net_income_needed, income_type,
                         gross_income + difference, k + 1)

\* `gross_income = net_income_needed / 0.7`
InitialGuess(net_income_needed) == MulDivRound(net_income_needed, 10, 7)

GrossSolve(net_income_needed, income_type) ==
  GrossLoop(net_income_needed, income_type, InitialGuess(net_income_needed), 0)

calculate_gross_income(net_income_needed, income_type) ==
  GrossSolve(net_income_needed, income_type)[1]

\* ------------------------------------------------------------------------
\* calculate_mortgage_payment and calculate_mortgage_principal_payment
\* ------------------------------------------------------------------------
\* annual_rate / 12
MonthlyRate(annual_rate) == DivRound(annual_rate, 12)

\* A growth factor (1 + monthly_rate) ** num_payments outgrows any fixed
\* number of decimals, and a double keeps a fixed number of significant
\* digits instead: below Precision counts a float <<m, e>> is the fixed-point
\* number m (e = 0), above it keeps the leading digits m and the number of
\* dropped digits e: it stands for m * 10^e counts.
Precision == 10 * RateScale
MoneyPrecision == 1000 * RateScale

\* a * b / c * 10^e rounded to a float of `precision`: the divisor grows or
\* shrinks with the exponent until the leading digits fit.
RECURSIVE Scaled(_, _, _, _, _)
Scaled(a, b, c, e, precision) ==
  LET q == MulDivRound(a, b, c)
  IN IF q >= precision THEN Scaled(a, b, c * 10, e + 1, precision)
     ELSE IF q < precision \div 10 /\ e > 0 /\ c > 1
          THEN Scaled(a, b, c \div 10, e - 1, precision)
          ELSE <<q, e>>

\* the float of a fixed-point rate
Float(x) == Scaled(x, 1, 1, 0, Precision)

\* x * y for two rate floats
FMul(x, y) == Scaled(x[1], y[1], RateScale, x[2] + y[2], Precision)

\* x with its last e digits dropped
RECURSIVE Shift(_, _)
Shift(x, e) == IF e = 0 \/ x = 0 THEN x ELSE Shift(x \div 10, e - 1)

\* g - 1 for a rate float: the 1 is lost when it is below the last digit kept
FMinusOne(g) ==
  IF g[2] = 0 THEN <<g[1] - RateScale, 0>>
  ELSE Scaled(10 * g[1] - Shift(Precision, g[2]), 1, 1, g[2] - 1, Precision)

\* money * y for a rate float y, as a money float
MoneyTimes(money, y) == Scaled(money, y[1], Precision, y[2] + 1, MoneyPrecision)

\* m * scale / d with `down` more digits dropped: the digits come off the
\* scale while it has any, then off m
RECURSIVE OverDown(_, _, _, _)
OverDown(m, scale, down, d) ==
  IF down = 0 THEN MulDivRound(m, scale, d)
  ELSE IF scale > 1 THEN OverDown(m, scale \div 10, down - 1, d)
  ELSE OverDown(DivRound(m, 10), scale, down - 1, d)

\* a money float / a rate float, as fixed-point money
MoneyOver(x, y) ==
  IF x[2] >= y[2] THEN MulDivRound(x[1], RateScale * 10^(x[2] - y[2]), y[1])
  ELSE OverDown(x[1], RateScale, y[2] - x[2], y[1])

\* base ** n for a growth factor base, n >= 0
RECURSIVE Pow(_, _)
Pow(base, n) ==
  IF n = 0 THEN Float(RateScale)
  ELSE LET half == Pow(base, n \div 2)
           square == FMul(half, half)
       IN IF n % 2 = 0 THEN square ELSE FMul(square, base)

calculate_mortgage_payment(principal, annual_rate, years) ==
  IF principal <= 0 \/ years <= 0 THEN 0
  ELSE LET monthly_rate == MonthlyRate(annual_rate)
           num_payments == years * 12
           growth == Pow(Float(RateScale + monthly_rate), num_payments)
       IN IF monthly_rate = 0 THEN DivRound(principal, num_payments)
          ELSE MoneyOver(MoneyTimes(principal, FMul(Float(monthly_rate), growth)),
                         FMinusOne(growth))

calculate_mortgage_principal_payment(principal, payment, annual_rate) ==
  IF principal <= 0 \/ payment <= 0 THEN 0
  ELSE LET monthly_rate == MonthlyRate(annual_rate)
           interest_payment == MulRate(principal, monthly_rate)
       IN payment - interest_payment

\* ------------------------------------------------------------------------
\* run_simulation: state
\* ------------------------------------------------------------------------
VARIABLES
  params,                   \* the arguments of the running call
  pc,                       \* "for", "while", "store", "return" (run_simulation)
  sim,                      \* the index of the `for sim in range(...)` loop
  current_debt,
  tfsa_savings,
  taxable_savings,
  taxable_cost_basis,
  years,
  total_tax_paid,
  yearly_income_needed,
  annual_data,
  monthly_mortgage_payment,
  all_simulations,
  call                      \* the caller: what it passes in and gets back

vars == <<params, pc, sim, current_debt, tfsa_savings, taxable_savings,
          taxable_cost_basis, years, total_tax_paid, yearly_income_needed,
          annual_data, monthly_mortgage_payment, all_simulations, call>>

sim_vars == <<params, pc, sim, current_debt, tfsa_savings, taxable_savings,
              taxable_cost_basis, years, total_tax_paid, yearly_income_needed,
              annual_data, monthly_mortgage_payment, all_simulations>>

trial_vars == <<current_debt, tfsa_savings, taxable_savings, taxable_cost_basis,
                years, total_tax_paid, yearly_income_needed, annual_data,
                monthly_mortgage_payment>>

LineOfCredit == "Line of Credit"
Mortgage == "Mortgage"

\* ------------------------------------------------------------------------
\* run_simulation: the pieces of the loop body
\* ------------------------------------------------------------------------
\* np.random.uniform(min_return, max_return), over the grid of returns
ReturnGrid == {-1000000, 0, 70000}
UniformDraws(min_return, max_return) ==
  {r \in ReturnGrid : min_return <= r /\ r <= max_return}

\* `for month in range(12)`: the monthly mortgage steps from `month` on
RECURSIVE MonthLoop(_, _, _, _, _, _)
MonthLoop(month, remaining_debt, annual_interest, principal_payment, payment, interest_rate) ==
  IF month >= 12 \/ remaining_debt <= 0
  THEN [remaining_debt |-> remaining_debt,
        annual_interest |-> annual_interest,
        principal_payment |-> principal_payment]
  ELSE LET month_interest == MulRate(remaining_debt, MonthlyRate(interest_rate))
           month_principal ==
             Min(remaining_debt,
                 calculate_mortgage_principal_payment(remaining_debt, payment,
                                                      interest_rate))
       IN MonthLoop(month + 1, remaining_debt - month_principal,
                    annual_interest + month_interest,
                    principal_payment + month_principal, payment, interest_rate)

TfsaGrowthReturnLost(tfsa, tfsa_return, contribution) == tfsa + contribution

\* `tfsa_savings += tfsa_return` and `tfsa_savings += annual_tfsa_contribution`
TfsaGrowth(tfsa, tfsa_return, contribution) == tfsa + tfsa_return + contribution

TaxableGrowthReturnSpent(taxable, taxable_return) == taxable

\* `taxable_savings += taxable_return`
TaxableGrowth(taxable, taxable_return) == taxable + taxable_return

RemainingProceedsUntaxed(total_available, total_expenses, investment_tax) ==
  total_available - total_expenses

\* remaining_proceeds = total_available - total_expenses - investment_tax
RemainingProceeds(total_available, total_expenses, investment_tax) ==
  total_available - total_expenses - investment_tax

AdditionalPaymentUnsigned(debt_type, debt, remaining_proceeds) ==
  IF debt_type = LineOfCredit THEN Min(debt, remaining_proceeds) ELSE 0

AdditionalPaymentAnyDebt(debt_type, debt, remaining_proceeds) ==
  IF remaining_proceeds > 0 THEN Min(debt, remaining_proceeds) ELSE 0

\* `if remaining_proceeds > 0 and debt_type == "Line of Credit"`: the extra
\* principal payment of the year (0 when the branch is not taken)
AdditionalPayment(debt_type, debt, remaining_proceeds) ==
  IF remaining_proceeds > 0 /\ debt_type = LineOfCredit
  THEN Min(debt, remaining_proceeds)
  ELSE 0

DepletedStrict(tfsa, taxable) == tfsa < 0 /\ taxable < 0

\* `if tfsa_savings <= 0 and taxable_savings <= 0: break`
Depleted(tfsa, taxable) == tfsa <= 0 /\ taxable <= 0

WhileConditionInclusive(debt, y, max_years) == debt > 0 /\ y <= max_years

\* `while current_debt > 0 and years < max_years`
WhileCondition(debt, y, max_years) == debt > 0 /\ y < max_years

StoreAppendCleared(results, result) ==
  IF result.final_debt <= 0 THEN Append(results, result) ELSE results

\* all_simulations.append({...})
StoreAppend(results, result) == Append(results, result)

\* One pass through the body of the while loop, as a record of every value
\* the body computes, from the state at the loop head and the return drawn.
YearBody(p, debt, tfsa, taxable, basis, y, tax_paid, income_needed, payment, annual_return) ==
  LET yearly == IF y > 0 THEN MulRate(income_needed, RateScale + p.inflation_rate)
                ELSE income_needed
      tfsa_return == MulRate(tfsa, annual_return)
      tfsa_new == TfsaGrowth(tfsa, tfsa_return, p.annual_tfsa_contribution)
      taxable_return == MulRate(taxable, annual_return)
      taxable_new == TaxableGrowth(taxable, taxable_return)
      dividend_income == MulRate(taxable_new, p.dividend_yield)
      capital_gains == taxable_return - dividend_income
      gross_income_needed == calculate_gross_income(yearly, "regular")
      personal_tax == gross_income_needed - yearly
      dividend_tax == calculate_tax(dividend_income, "eligible_dividends")
      capital_gains_tax == calculate_tax(capital_gains, "capital_gains")
      investment_tax == dividend_tax + capital_gains_tax
      total_tax == personal_tax + investment_tax
      m == MonthLoop(0, debt, 0, 0, payment, p.interest_rate)
      is_mortgage == p.debt_type = Mortgage
      annual_interest == IF is_mortgage THEN m.annual_interest
                         ELSE MulRate(debt, p.interest_rate)
      total_payment == IF is_mortgage THEN payment * 12 ELSE annual_interest
      debt_after_service == IF is_mortgage THEN m.remaining_debt ELSE debt
      total_expenses == gross_income_needed + total_payment
      total_available == tfsa_return + taxable_return
      remaining_proceeds ==
        RemainingProceeds(total_available, total_expenses, investment_tax)
      additional_payment ==
        AdditionalPayment(p.debt_type, debt_after_service, remaining_proceeds)
      took_surplus == remaining_proceeds > 0 /\ p.debt_type = LineOfCredit
      debt_new == debt_after_service - additional_payment
      principal_payment == IF took_surplus THEN additional_payment
                           ELSE IF is_mortgage THEN m.principal_payment ELSE 0
  IN [current_debt |-> debt_new,
      tfsa_savings |-> tfsa_new,
      taxable_savings |-> taxable_new,
      taxable_cost_basis |-> basis + taxable_return,
      total_tax_paid |-> tax_paid + total_tax,
      yearly_income_needed |-> yearly,
      record |-> [Year |-> y + 1,
                  Debt |-> debt_new,
                  TFSASavings |-> tfsa_new,
                  TaxableSavings |-> taxable_new,
                  TotalTaxPaid |-> tax_paid + total_tax,
                  AnnualReturn |-> annual_return,
                  GrossIncomeNeeded |-> gross_income_needed,
                  PersonalTax |-> personal_tax,
                  InvestmentTax |-> investment_tax,
                  TotalExpenses |-> total_expenses,
                  PrincipalPayment |-> principal_payment,
                  InterestPayment |-> annual_interest,
                  TotalPayment |-> total_payment]]

\* ------------------------------------------------------------------------
\* run_simulation: the arguments explored
\* ------------------------------------------------------------------------
MaxSims == 2
MaxYears == 3
MaxAmort == 2

DefaultAmortization == 25

ParamRecord(debt, split, rate, returns, income, n, my, kind, contribution) ==
  [initial_debt |-> Dollars(debt),
   savings |-> Dollars(split[1]),
   tfsa_amount |-> Dollars(split[2]),
   interest_rate |-> rate,
   min_return |-> returns[1],
   max_return |-> returns[2],
   monthly_income_needed |-> Dollars(income),
   num_simulations |-> n,
   max_years |-> my,
   inflation_rate |-> 20000,
   dividend_yield |-> 20000,
   debt_type |-> kind[1],
   amortization_years |-> kind[2],
   annual_tfsa_contribution |-> Dollars(contribution)]

DebtKinds ==
  {<<LineOfCredit, DefaultAmortization>>} \cup {<<Mortgage, a>> : a \in 1..MaxAmort}

\* max_years: a negative cap, no year at all, and up to MaxYears years
YearCaps == (-1)..MaxYears

\* One trial, over every combination of the other arguments
SingleTrialGrid ==
  {ParamRecord(debt, split, rate, returns, income, 1, my, kind, contribution) :
     debt \in {0, 1100, 900000},
     split \in {<<0, 0>>, <<10000, 4000>>, <<500000, 500000>>},
     rate \in {0, 60000},
     returns \in {<<0, 0>>, <<70000, 70000>>, <<-1000000, 0>>},
     income \in {0, 3000},
     my \in YearCaps,
     kind \in DebtKinds,
     contribution \in {0, 6500}}

\* Any number of trials, of a small debt against savings in both accounts
MultiTrialGrid ==
  {ParamRecord(1100, <<10000, 4000>>, 60000, returns, 0, n, my, kind, 0) :
     returns \in {<<0, 0>>, <<70000, 70000>>, <<-1000000, 0>>},
     n \in 0..MaxSims,
     my \in YearCaps,
     kind \in DebtKinds}

ParamGrid == SingleTrialGrid \cup MultiTrialGrid

\* The end-to-end scenario: everything in the tax-sheltered account, a
\* degenerate 7% draw, no income need, one trial of at most 30 years.
EndToEndYears == 30
EndToEnd ==
  ParamRecord(900000, <<500000, 500000>>, 55000, <<70000, 70000>>, 0, 1,
              EndToEndYears, <<LineOfCredit, DefaultAmortization>>, 6500)

\* A mortgage whose growth factor (1 + 2.29/12) ** 300 exceeds what a float
\* resolves to the unit: a debt of 115,017.46 and nothing else but the
\* contribution.
HighRateMortgage ==
  [ParamRecord(115017, <<0, 0>>, 2290000, <<0, 0>>, 0, 1, MaxYears,
               <<Mortgage, DefaultAmortization>>, 6500)
     EXCEPT !.initial_debt = Dollars(115017) + (46 * Unit) \div 100]

ParamSpace == ParamGrid \cup {EndToEnd, HighRateMortgage}

\* ------------------------------------------------------------------------
\* run_simulation: the steps
\* ------------------------------------------------------------------------
Init ==
  /\ params \in ParamSpace
  /\ call = [fn |-> "run_simulation"]
  /\ pc = "for"
  /\ sim = 0
  /\ all_simulations = <<>>
  /\ current_debt = 0
  /\ tfsa_savings = 0
  /\ taxable_savings = 0
  /\ taxable_cost_basis = 0
  /\ years = 0
  /\ total_tax_paid = 0
  /\ yearly_income_needed = 0
  /\ annual_data = <<>>
  /\ monthly_mortgage_payment = 0

\* `for sim in range(num_simulations)`: the next trial is set up
ForBody ==
  /\ pc = "for"
  /\ sim < params.num_simulations
  /\ current_debt' = params.initial_debt
  /\ tfsa_savings' = Min(params.tfsa_amount, params.savings)
  /\ taxable_savings' = Max(0, params.savings - params.tfsa_amount)
  /\ taxable_cost_basis' = Max(0, params.savings - params.tfsa_amount)
  /\ years' = 0
  /\ total_tax_paid' = 0
  /\ yearly_income_needed' = params.monthly_income_needed * 12
  /\ annual_data' = <<>>
  /\ monthly_mortgage_payment' =
       IF params.debt_type = Mortgage
       THEN calculate_mortgage_payment(params.initial_debt, params.interest_rate,
                                       params.amortization_years)
       ELSE 0
  /\ pc' = "while"
  /\ UNCHANGED <<params, sim, all_simulations, call>>

\* the for loop is exhausted: `return all_simulations`
ForExit ==
  /\ pc = "for"
  /\ sim >= params.num_simulations
  /\ pc' = "return"
  /\ UNCHANGED <<params, sim, all_simulations, trial_vars, call>>

\* one iteration of the while loop, up to the depletion check
YearStep ==
  /\ pc = "while"
  /\ WhileCondition(current_debt, years, params.max_years)
  /\ \E annual_return \in UniformDraws(params.min_return, params.max_return) :
     \E b \in {YearBody(params, current_debt, tfsa_savings, taxable_savings,
                         taxable_cost_basis, years, total_tax_paid,
                         yearly_income_needed, monthly_mortgage_payment,
                         annual_return)} :
          /\ current_debt' = b.current_debt
          /\ tfsa_savings' = b.tfsa_savings
          /\ taxable_savings' = b.taxable_savings
          /\ taxable_cost_basis' = b.taxable_cost_basis
          /\ total_tax_paid' = b.total_tax_paid
          /\ yearly_income_needed' = b.yearly_income_needed
          /\ annual_data' = Append(annual_data, b.record)
          /\ years' = years + 1
          /\ pc' = IF Depleted(b.tfsa_savings, b.taxable_savings)
                   THEN "store" ELSE "while"
  /\ UNCHANGED <<params, sim, all_simulations, monthly_mortgage_payment, call>>

\* the while condition is false
WhileExit ==
  /\ pc = "while"
  /\ ~WhileCondition(current_debt, years, params.max_years)
  /\ pc' = "store"
  /\ UNCHANGED <<params, sim, all_simulations, trial_vars, call>>

\* the dictionary stored for the trial that has just ended
TrialResult ==
  [years |-> years,
   final_debt |-> current_debt,
   tfsa_savings |-> tfsa_savings,
   taxable_savings |-> taxable_savings,
   total_tax_paid |-> total_tax_paid,
   annual_data |-> annual_data]

\* `all_simulations.append({...})`, then on to the next trial
StoreResult ==
  /\ pc = "store"
  /\ all_simulations' = StoreAppend(all_simulations, TrialResult)
  /\ sim' = sim + 1
  /\ pc' = "for"
  /\ UNCHANGED <<params, trial_vars, call>>

Next == ForBody \/ ForExit \/ YearStep \/ WhileExit \/ StoreResult

Spec == Init /\ [][Next]_vars

\* The interpreter keeps running the call until it returns: some step is
\* enabled exactly while pc # "return", so this is weak fairness of Next.
Progress == []<>(pc = "return") \/ []<><<Next>>_vars

FairSpec == Spec /\ Progress

\* ------------------------------------------------------------------------
\* The tax functions on their own: a caller applies calculate_tax to two
\* incomes of one income type, or calculate_gross_income to a net target.
\* ------------------------------------------------------------------------
MaxOffset == 3
GrossSweepPoints == 400

IncomeBases == {-100, 0, 100, 40000, 100000, 156706, 300000}
IncomeSamples == {Dollars(b) + i : b \in IncomeBases, i \in 0..MaxOffset}

GrossSweepStep == Dollars(1250)
NetSamples == {GrossSweepStep * k : k \in 0..GrossSweepPoints}

TaxCalls ==
  {[fn |-> "calculate_tax", income1 |-> a, income2 |-> b, income_type |-> t,
    done |-> FALSE, tax1 |-> 0, tax2 |-> 0] :
     a \in IncomeSamples, b \in IncomeSamples, t \in IncomeTypes}

GrossCalls ==
  {[fn |-> "calculate_gross_income", net_income_needed |-> n, done |-> FALSE,
    gross_income |-> 0, iterations |-> 0] : n \in NetSamples}

\* no simulation is running
SimIdle ==
  /\ params = [fn |-> "none"]
  /\ pc = "idle"
  /\ sim = 0
  /\ all_simulations = <<>>
  /\ current_debt = 0
  /\ tfsa_savings = 0
  /\ taxable_savings = 0
  /\ taxable_cost_basis = 0
  /\ years = 0
  /\ total_tax_paid = 0
  /\ yearly_income_needed = 0
  /\ annual_data = <<>>
  /\ monthly_mortgage_payment = 0

TaxInit ==
  /\ call \in TaxCalls \cup GrossCalls
  /\ SimIdle

CallTax ==
  /\ call.fn = "calculate_tax"
  /\ ~call.done
  /\ call' = [call EXCEPT !.done = TRUE,
                          !.tax1 = calculate_tax(call.income1, call.income_type),
                          !.tax2 = calculate_tax(call.income2, call.income_type)]
  /\ UNCHANGED sim_vars

CallGross ==
  /\ call.fn = "calculate_gross_income"
  /\ ~call.done
  /\ \E g \in {GrossSolve(call.net_income_needed, "regular")} :
       call' = [call EXCEPT !.done = TRUE, !.gross_income = g[1],
                            !.iterations = g[2]]
  /\ UNCHANGED sim_vars

TaxNext == CallTax \/ CallGross

TaxSpec == TaxInit /\ [][TaxNext]_vars

\* ------------------------------------------------------------------------
\* The savings-only mode: app.py's main builds the arguments and calls
\* run_tfsa_simulation, which applies return and contribution to the
\* tax-sheltered balance for max_years years in each trial.
\* ------------------------------------------------------------------------
\* `tfsa_amount = (tfsa_allocation_percent / 100.0) * savings`
TfsaAmount(savings, tfsa_allocation_percent) ==
  MulDivRound(savings, tfsa_allocation_percent, 100)

TfsaParamsAllSavings(inputs) ==
  [tfsa_savings |-> inputs.savings,
   min_return |-> inputs.min_return,
   max_return |-> inputs.max_return,
   num_simulations |-> inputs.num_simulations,
   max_years |-> inputs.max_years,
   inflation_rate |-> inputs.inflation_rate,
   dividend_yield |-> inputs.dividend_yield,
   annual_tfsa_contribution |-> inputs.annual_tfsa_contribution]

\* the `params` dictionary of the TFSA branch of main
TfsaParams(inputs) ==
  [tfsa_savings |-> TfsaAmount(inputs.savings, inputs.tfsa_allocation_percent),
   min_return |-> inputs.min_return,
   max_return |-> inputs.max_return,
   num_simulations |-> inputs.num_simulations,
   max_years |-> inputs.max_years,
   inflation_rate |-> inputs.inflation_rate,
   dividend_yield |-> inputs.dividend_yield,
   annual_tfsa_contribution |-> inputs.annual_tfsa_contribution]

TfsaInputs ==
  {[fn |-> "main", savings |-> Dollars(s), tfsa_allocation_percent |-> pct,
    min_return |-> returns[1], max_return |-> returns[2],
    num_simulations |-> n, max_years |-> my, inflation_rate |-> 20000,
    dividend_yield |-> 20000, annual_tfsa_contribution |-> Dollars(c)] :
     s \in {0, 10000, 500000}, pct \in {0, 40, 100},
     returns \in {<<0, 0>>, <<70000, 70000>>, <<-1000000, 0>>},
     n \in 1..MaxSims, my \in 1..MaxYears, c \in {0, 6500}}

TfsaInit ==
  /\ call \in TfsaInputs
  /\ params = TfsaParams(call)
  /\ pc = "for"
  /\ sim = 0
  /\ all_simulations = <<>>
  /\ current_debt = 0
  /\ tfsa_savings = 0
  /\ taxable_savings = 0
  /\ taxable_cost_basis = 0
  /\ years = 0
  /\ total_tax_paid = 0
  /\ yearly_income_needed = 0
  /\ annual_data = <<>>
  /\ monthly_mortgage_payment = 0

tfsa_frame == <<current_debt, taxable_savings, taxable_cost_basis, total_tax_paid, yearly_income_needed, monthly_mortgage_payment, params, call>>

\* the next trial starts from the initial allocation
TfsaForBody ==
  /\ pc = "for"
  /\ sim < params.num_simulations
  /\ tfsa_savings' = params.tfsa_savings
  /\ years' = 0
  /\ annual_data' = <<>>
  /\ pc' = "years"
  /\ UNCHANGED <<sim, all_simulations, tfsa_frame>>

TfsaForExit ==
  /\ pc = "for"
  /\ sim >= params.num_simulations
  /\ pc' = "return"
  /\ UNCHANGED <<sim, all_simulations, tfsa_savings, years, annual_data, tfsa_frame>>

\* one year: the return drawn, then the contribution
TfsaYearStep ==
  /\ pc = "years"
  /\ years < params.max_years
  /\ \E annual_return \in UniformDraws(params.min_return, params.max_return) :
       \E balance \in {TfsaGrowth(tfsa_savings, MulRate(tfsa_savings, annual_return), params.annual_tfsa_contribution)} :
          /\ tfsa_savings' = balance
          /\ annual_data' = Append(annual_data, [Year |-> years + 1, TFSABalance |-> balance, AnnualReturn |-> annual_return])
  /\ years' = years + 1
  /\ UNCHANGED <<pc, sim, all_simulations, tfsa_frame>>

\* the horizon is reached: the trial is stored
TfsaStore ==
  /\ pc = "years"
  /\ years >= params.max_years
  /\ all_simulations' = Append(all_simulations, [tfsa_balance |-> tfsa_savings, annual_data |-> annual_data])
  /\ sim' = sim + 1
  /\ pc' = "for"
  /\ UNCHANGED <<tfsa_savings, years, annual_data, tfsa_frame>>

TfsaNext == TfsaForBody \/ TfsaForExit \/ TfsaYearStep \/ TfsaStore

TfsaSpec == TfsaInit /\ [][TfsaNext]_vars

\* ========================================================================
\* Claims
\* ========================================================================
ResultFields ==
  {"years", "final_debt", "tfsa_savings", "taxable_savings", "total_tax_paid", "annual_data"}

LastResult(results) == results[Len(results)]

ZeroReturnNoIncome ==
  params.min_return = 0 /\ params.max_return = 0 /\ params.monthly_income_needed = 0

\* C1: run_simulation returns exactly num_simulations Trial Results: every
\* trial that ends is appended at the end of the list, whatever way it
\* ended, nothing else changes the list, and each result carries the six
\* fields.
C1_OneResultPerTrial ==
  [][/\ Len(all_simulations) = sim
     /\ pc = "store" =>
          /\ Len(all_simulations') = Len(all_simulations) + 1
          /\ LastResult(all_simulations') = TrialResult
          /\ SubSeq(all_simulations', 1, Len(all_simulations)) = all_simulations
     /\ pc # "store" => all_simulations' = all_simulations
     /\ pc' = "return" =>
          /\ Len(all_simulations') = params.num_simulations
          /\ \A i \in DOMAIN all_simulations' :
               DOMAIN all_simulations'[i] = ResultFields]_vars

\* Two trials were returned: the first stopped early on depleted savings
\* with debt left, the second ran to the year cap.
C1_Witness ==
  /\ pc = "return"
  /\ Len(all_simulations) = 2
  /\ all_simulations[1].final_debt > 0
  /\ all_simulations[1].years < params.max_years
  /\ all_simulations[2].years = params.max_years
  /\ all_simulations[2].final_debt > 0

\* C2: a year that ends with both savings balances <= 0 ends the trial (no
\* further year is simulated, whatever the debt and the year cap), and the
\* trial is stored with the years it ran.
C2_DepletionStopsTrial ==
  [][/\ (pc = "while" /\ years' = years + 1
           /\ tfsa_savings' <= 0 /\ taxable_savings' <= 0) => pc' = "store"
     /\ (pc = "store" /\ tfsa_savings <= 0 /\ taxable_savings <= 0) =>
          /\ years' = years
          /\ Len(all_simulations') = Len(all_simulations) + 1
          /\ LastResult(all_simulations').years = years
          /\ Len(LastResult(all_simulations').annual_data) = years
          /\ years < params.max_years =>
               LastResult(all_simulations').years < params.max_years]_vars

\* A stored trial that started with savings, ran a normal year, was depleted
\* in a later one before the year cap, and still owes debt.
C2_Witness ==
  \E i \in DOMAIN all_simulations :
    /\ params.savings > 0
    /\ all_simulations[i].years >= 2
    /\ all_simulations[i].years < params.max_years
    /\ all_simulations[i].final_debt > 0
    /\ all_simulations[i].tfsa_savings <= 0
    /\ all_simulations[i].taxable_savings <= 0

\* C3: a Line of Credit trial with zero returns and zero income need never
\* reduces principal: every recorded debt and the final debt equal
\* initial_debt.
C3_InterestOnlyDebtUnchanged ==
  (params.debt_type = LineOfCredit /\ ZeroReturnNoIncome) =>
    /\ pc \in {"while", "store"} => current_debt = params.initial_debt
    /\ \A i \in DOMAIN annual_data :
         /\ annual_data[i].Debt = params.initial_debt
         /\ annual_data[i].PrincipalPayment = 0
    /\ \A i \in DOMAIN all_simulations :
         /\ all_simulations[i].final_debt = params.initial_debt
         /\ \A k \in DOMAIN all_simulations[i].annual_data :
              all_simulations[i].annual_data[k].Debt = params.initial_debt

\* Such a trial, with debt, interest, a taxable balance and a contribution,
\* stored after at least two years.
C3_Witness ==
  /\ params.debt_type = LineOfCredit
  /\ ZeroReturnNoIncome
  /\ params.initial_debt > 0
  /\ params.interest_rate > 0
  /\ params.savings > params.tfsa_amount
  /\ params.annual_tfsa_contribution > 0
  /\ \E i \in DOMAIN all_simulations :
       /\ all_simulations[i].years >= 2
       /\ all_simulations[i].final_debt = params.initial_debt

\* C4: a Mortgage trial that is not cut short (max_years >= amortization_years,
\* savings not depleted) ends with final_debt = 0 and years =
\* amortization_years: the balance reaches exactly 0 in the last year of the
\* term, and not before.
C4_MortgageClearedAtTerm ==
  \A i \in DOMAIN all_simulations :
    LET r == all_simulations[i]
        term == params.amortization_years
    IN (/\ params.debt_type = Mortgage
        /\ params.initial_debt > 0
        /\ params.max_years >= term
        /\ ~Depleted(r.tfsa_savings, r.taxable_savings)) =>
         /\ r.final_debt = 0
         /\ r.years = term
         /\ r.annual_data[term].Debt = 0
         /\ \A k \in 1..(term - 1) : r.annual_data[k].Debt > 0

\* The net income a gross income leaves, less the target: G - tax(G) - net.
Residual(gross_income, net_income_needed) ==
  (gross_income - calculate_tax(gross_income, "regular")) - net_income_needed

SweepEnd == Dollars(500000)
Cent == Unit \div 100

ConvergentEnd == Dollars(40000)
ResidualCap == Dollars(236)

RoundedOperations == 1 + Len(federal_brackets) + Len(bc_brackets) + 2

DebtBefore(data, i) == IF i = 1 THEN params.initial_debt ELSE data[i - 1].Debt
TfsaBefore(data, i) ==
  IF i = 1 THEN Min(params.tfsa_amount, params.savings) ELSE data[i - 1].TFSASavings
TaxableBefore(data, i) ==
  IF i = 1 THEN Max(0, params.savings - params.tfsa_amount)
  ELSE data[i - 1].TaxableSavings

\* The surplus of year i of a history, from what the history records:
\* the year's returns less the year's expenses and investment tax.
RecordedSurplus(data, i) ==
  (MulRate(TfsaBefore(data, i), data[i].AnnualReturn)
     + MulRate(TaxableBefore(data, i), data[i].AnnualReturn))
  - data[i].TotalExpenses - data[i].InvestmentTax

\* C7: in the end-to-end scenario the recorded debt never increases, it
\* strictly decreases in every year from the first year of positive surplus
\* until it is cleared, and the trial ends with final_debt <= 0 and
\* years < 30.
C7_EndToEndScenario ==
  params = EndToEnd =>
    /\ \A i \in DOMAIN annual_data :
         annual_data[i].Debt <= DebtBefore(annual_data, i)
    /\ \A i, j \in DOMAIN annual_data :
         (i <= j /\ RecordedSurplus(annual_data, i) > 0
            /\ DebtBefore(annual_data, j) > 0) =>
           annual_data[j].Debt < DebtBefore(annual_data, j)
    /\ pc = "store" => (current_debt <= 0 /\ years < EndToEndYears)
    /\ \A i \in DOMAIN all_simulations :
         /\ all_simulations[i].final_debt <= 0
         /\ all_simulations[i].years < EndToEndYears
         /\ all_simulations[i].annual_data = annual_data

\* The scenario's trial returned: years without surplus came first, years
\* with principal payments followed, and the debt is cleared.
C7_Witness ==
  /\ params = EndToEnd
  /\ pc = "return"
  /\ Len(all_simulations) = 1
  /\ all_simulations[1].final_debt = 0
  /\ \E i, j \in DOMAIN annual_data :
       /\ i < j
       /\ annual_data[i].PrincipalPayment = 0
       /\ annual_data[i].Debt = params.initial_debt
       /\ annual_data[j].PrincipalPayment > 0
       /\ annual_data[j].Debt > 0

C9_LineOfCreditSurplus ==
  [][(pc = "while" /\ years' = years + 1 /\ params.debt_type = LineOfCredit) =>
       LET rec == annual_data'[Len(annual_data')]
           surplus ==
             (MulRate(tfsa_savings, rec.AnnualReturn)
                + MulRate(taxable_savings, rec.AnnualReturn))
             - (rec.GrossIncomeNeeded + MulRate(current_debt, params.interest_rate))
             - rec.InvestmentTax
       IN IF surplus > 0
          THEN /\ current_debt' = current_debt - Min(current_debt, surplus)
               /\ rec.PrincipalPayment = Min(current_debt, surplus)
               /\ rec.Debt = current_debt'
          ELSE /\ current_debt' = current_debt
               /\ rec.PrincipalPayment = 0
               /\ rec.Debt = current_debt]_vars

\* A Line of Credit year with investment tax whose surplus paid part of the
\* debt, after a year that paid nothing.
C9_Witness ==
  /\ params.debt_type = LineOfCredit
  /\ \E i \in DOMAIN annual_data :
       /\ annual_data[i].InvestmentTax > 0
       /\ annual_data[i].PrincipalPayment > 0
       /\ annual_data[i].Debt > 0
       /\ annual_data[i].Debt
            = DebtBefore(annual_data, i) - RecordedSurplus(annual_data, i)

\* The balance the mortgage schedule leaves after a year that started from
\* `debt`: twelve monthly steps of the payment fixed at origination.
ScheduledDebt(debt, payment) ==
  MonthLoop(0, debt, 0, 0, payment, params.interest_rate).remaining_debt

ScheduledHistory(data) ==
  \A payment \in {calculate_mortgage_payment(params.initial_debt, params.interest_rate, params.amortization_years)} :
    \A k \in DOMAIN data :
      \A before \in {DebtBefore(data, k)} :
        /\ data[k].Debt = ScheduledDebt(before, payment)
        /\ data[k].PrincipalPayment = before - data[k].Debt

\* C10: the debt a Mortgage trial records for a year is the scheduled balance:
\* it depends on the previous debt, interest_rate and the monthly payment
\* fixed by initial_debt, interest_rate and amortization_years alone, whatever
\* the returns, savings, income need or surplus; and the principal paid in the
\* year is the scheduled principal: no extra payment is applied.
C10_MortgageDebtScheduled ==
  params.debt_type = Mortgage =>
    /\ ScheduledHistory(annual_data)
    /\ pc \in {"while", "store"} =>
         current_debt = DebtBefore(annual_data, Len(annual_data) + 1)
    /\ \A i \in DOMAIN all_simulations :
         all_simulations[i].final_debt
           = DebtBefore(all_simulations[i].annual_data, all_simulations[i].years + 1)

\* A Mortgage year with a positive surplus that left debt outstanding.
C10_Witness ==
  /\ params.debt_type = Mortgage
  /\ \E i \in DOMAIN annual_data :
       /\ RecordedSurplus(annual_data, i) > 0
       /\ annual_data[i].Debt > 0
       /\ annual_data[i].PrincipalPayment > 0

\* C11: in every simulated year, with r the one return drawn that year,
\* tfsa_savings becomes tfsa_savings + tfsa_savings x r +
\* annual_tfsa_contribution and taxable_savings becomes taxable_savings +
\* taxable_savings x r, both from the same r, and the year's record shows
\* these balances; the year's taxes, income need, interest, principal and
\* surplus, whatever its sign, leave the balances alone, and so does every
\* step that is not a simulated year (a new trial resets them).
C11_BalancesGrowByReturnOnly ==
  [][/\ (pc = "while" /\ years' = years + 1) =>
          LET rec == LastResult(annual_data')
              r == rec.AnnualReturn
          IN /\ r \in UniformDraws(params.min_return, params.max_return)
             /\ tfsa_savings' = tfsa_savings + MulRate(tfsa_savings, r)
                                  + params.annual_tfsa_contribution
             /\ taxable_savings' = taxable_savings + MulRate(taxable_savings, r)
             /\ rec.TFSASavings = tfsa_savings'
             /\ rec.TaxableSavings = taxable_savings'
     /\ (pc # "for" /\ years' = years) =>
          (tfsa_savings' = tfsa_savings /\ taxable_savings' = taxable_savings)]_vars

\* A Mortgage year with a nonzero return on both balances, a contribution,
\* personal and investment tax, interest and scheduled principal, and a
\* negative surplus: both balances still hold the year's full growth.
C11_Witness ==
  /\ params.debt_type = Mortgage
  /\ params.annual_tfsa_contribution > 0
  /\ \E i \in DOMAIN annual_data :
       /\ annual_data[i].AnnualReturn > 0
       /\ annual_data[i].PersonalTax > 0
       /\ annual_data[i].InvestmentTax > 0
       /\ annual_data[i].InterestPayment > 0
       /\ annual_data[i].PrincipalPayment > 0
       /\ RecordedSurplus(annual_data, i) < 0
       /\ annual_data[i].TFSASavings > TfsaBefore(annual_data, i)
                                         + params.annual_tfsa_contribution
       /\ annual_data[i].TaxableSavings > TaxableBefore(annual_data, i)

\* C12: with initial_debt >= 0 and interest_rate >= 0, for either debt type,
\* the debt at the end of every simulated year satisfies
\* 0 <= debt <= debt of the previous year <= initial_debt: it is never
\* negative and never grows, in the running trial and in every stored one.
C12_DebtNeverGrows ==
  (params.initial_debt >= 0 /\ params.interest_rate >= 0) =>
    /\ \A i \in DOMAIN annual_data :
         /\ 0 <= annual_data[i].Debt
         /\ annual_data[i].Debt <= DebtBefore(annual_data, i)
         /\ DebtBefore(annual_data, i) <= params.initial_debt
    /\ pc \in {"while", "store"} =>
         (0 <= current_debt /\ current_debt <= params.initial_debt)
    /\ \A i \in DOMAIN all_simulations :
         /\ 0 <= all_simulations[i].final_debt
         /\ all_simulations[i].final_debt <= params.initial_debt

\* The history of a trial numbers its years 1..y in order, without gaps.
Chronological(data, y) ==
  /\ Len(data) = y
  /\ \A i \in DOMAIN data : data[i].Year = i

\* C13 as stated: years equals the number of Annual Records, the i-th record
\* has Year = i, years <= max_years, and a stored trial ended with
\* final_debt <= 0 or years = max_years or both savings balances <= 0; a trial
\* with initial_debt <= 0 or max_years <= 0 has years = 0 and no history.
C13_BoundedByMaxYears ==
  \A i \in DOMAIN all_simulations :
    LET r == all_simulations[i]
    IN /\ Chronological(r.annual_data, r.years)
       /\ r.years <= params.max_years
       /\ \/ r.final_debt <= 0
          \/ r.years = params.max_years
          \/ Depleted(r.tfsa_savings, r.taxable_savings)
       /\ (params.initial_debt <= 0 \/ params.max_years <= 0) =>
            (r.years = 0 /\ r.annual_data = <<>>)

\* The cap as the loop applies it: years never passes max(max_years, 0), and
\* a trial ends with final_debt <= 0, years >= max_years or depleted savings.
TrialBounded(y, data, debt, tfsa, taxable) ==
  /\ Chronological(data, y)
  /\ y <= Max(params.max_years, 0)
  /\ \/ debt <= 0
     \/ y >= params.max_years
     \/ Depleted(tfsa, taxable)
  /\ (params.initial_debt <= 0 \/ params.max_years <= 0) => (y = 0 /\ data = <<>>)

\* C13, amended: every trial terminates after at most max(max_years, 0)
\* year-steps (each year-step adds one to years, which never passes the cap,
\* and a running trial always comes to its end); years equals the number of
\* Annual Records, the i-th record has Year = i, years <= max(max_years, 0),
\* and the trial ends with final_debt <= 0 or years >= max_years or both
\* savings balances <= 0; a trial with initial_debt <= 0 or max_years <= 0 has
\* years = 0 and no history.
C13_BoundedByYearCap ==
  /\ [](/\ pc \in {"while", "store"} =>
             (Chronological(annual_data, years) /\ years <= Max(params.max_years, 0))
        /\ pc = "store" =>
             TrialBounded(years, annual_data, current_debt, tfsa_savings,
                          taxable_savings)
        /\ \A i \in DOMAIN all_simulations :
             TrialBounded(all_simulations[i].years, all_simulations[i].annual_data,
                          all_simulations[i].final_debt,
                          all_simulations[i].tfsa_savings,
                          all_simulations[i].taxable_savings))
  /\ [][pc = "while" => (years' = years + 1 \/ (years' = years /\ pc' = "store"))]_vars
  /\ (pc = "while") ~> (pc = "store")
  /\ <>(pc = "return" /\ Len(all_simulations) = params.num_simulations)

\* A call returned two trials that ran to a cap of at least two years with
\* debt and savings left, each with its years numbered in order.
C13_Witness ==
  /\ pc = "return"
  /\ params.max_years >= 2
  /\ Len(all_simulations) = 2
  /\ \A i \in DOMAIN all_simulations :
       /\ all_simulations[i].years = params.max_years
       /\ all_simulations[i].final_debt > 0
       /\ all_simulations[i].tfsa_savings > 0
       /\ all_simulations[i].annual_data[params.max_years].Year = params.max_years
====
